---------------------------- MODULE Spec2Model ----------------------------
(***************************************************************************)
(* A model of scripts/geomagnetic_processor.py: the conversion of raw      *)
(* minute-cadence geomagnetic samples to the IMFV1.22 exchange format.     *)
(*                                                                         *)
(* Conventions of the model                                                *)
(*  - A real number of the program (a float) is held as an integer count   *)
(*    of hundredths: H0 = 20000.00 nT is 2000000.  The arithmetic is the   *)
(*    exact arithmetic of those values; binary floating point rounding is  *)
(*    not modelled.  int(x) truncates toward zero, as Python's int does.   *)
(*  - A text line is a sequence of one-character strings where its         *)
(*    characters matter (format_data_line); a line of the raw file is a    *)
(*    record, [kind |-> "hdr", ...] for a line of at most 15 characters    *)
(*    made of three digit strings and [kind |-> "data", ...] for a longer  *)
(*    line holding a raw triple.                                           *)
(*  - A Python list is a sequence; Python index i is element i + 1.        *)
(***************************************************************************)
EXTENDS Integers, Sequences, FiniteSets, TLC

VARIABLES
    opt,             \* the ProgOptions object
    DAYS_IN_MONTH,   \* the module-level list monday() writes to
    entry,           \* "day": run_conversion, "block": the __main__ block path
    pc,              \* position of the run
    err,             \* how the run ended when it did not complete
    rawfile,         \* the lines of opt.filename
    blfile,          \* the lines of opt.baseline_fpath
    req,             \* arguments of extract_12_min_block
    pos,             \* number of lines of rawfile consumed by the running loop
    index,           \* read_convert_raw: the cursor
    header,          \* extract_12_min_block: header
    block_data,      \* extract_12_min_block: block_data
    current_minute,  \* extract_12_min_block: current_minute
    i,               \* dump_data: the loop variable
    outfile,         \* the output file on disk
    call             \* a call of one of the pure functions, with its result

vars == <<opt, DAYS_IN_MONTH, entry, pc, err, rawfile, blfile, req, pos, index,
          header, block_data, current_minute, i, outfile, call>>

progvars == <<opt, entry, pc, err, rawfile, blfile, req, pos, index,
              header, block_data, current_minute, i, outfile>>

None == "None"

-----------------------------------------------------------------------------
(* Bounds of the model.                                                    *)

MaxLines == 4

MaxMinute == 2

MaxBlock == 2

-----------------------------------------------------------------------------
(* Integer helpers.                                                        *)

Abs(x) == IF x < 0 THEN -x ELSE x

\* int(n / d) of Python for a rational n / d, d # 0: truncation toward zero.
TruncDiv(n, d) ==
    LET q == Abs(n) \div Abs(d)
    IN  IF (n < 0) = (d < 0) THEN q ELSE -q

RECURSIVE HypSearch(_, _, _, _)
\* the largest k in lo..hi with k * (2a + k) <= bb, by bisection
HypSearch(a, bb, lo, hi) ==
    IF lo >= hi THEN lo
    ELSE LET mid == (lo + hi + 1) \div 2
         IN  IF mid * (2 * a + mid) <= bb
             THEN HypSearch(a, bb, mid, hi)
             ELSE HypSearch(a, bb, lo, mid - 1)

\* floor(sqrt(x^2 + y^2)): math.sqrt(Htmp**2 + Ztmp**2), computed without
\* forming the sum of squares, as a + k with k the largest k such that
\* (a + k)^2 <= a^2 + b^2, where a >= b >= 0 are |x|, |y| in order.
Hypot(x, y) ==
    LET a == IF Abs(x) >= Abs(y) THEN Abs(x) ELSE Abs(y)
        b == IF Abs(x) >= Abs(y) THEN Abs(y) ELSE Abs(x)
    IN  IF a = 0 THEN 0
        ELSE a + HypSearch(a, b * b, 0, (b * b) \div (2 * a))

-----------------------------------------------------------------------------
(* monday(year, dayno)                                                     *)

MONTHS == <<"JAN", "FEB", "MAR", "APR", "MAY", "JUN",
            "JUL", "AUG", "SEP", "OCT", "NOV", "DEC">>

\* DAYS_IN_MONTH as the module is loaded; element k + 1 is DAYS_IN_MONTH[k]
DAYS_IN_MONTH_0 == <<0, 31, 28, 31, 30, 31, 30, 31, 31, 30, 31, 30, 31>>

IsLeap(y) == (y % 4 = 0 /\ y % 100 # 0) \/ (y % 400 = 0)

\* A version that only ever lengthens February: the value of an earlier
\* leap-year call then leaks into a later call.
MondaySetFebMutSticky(dim, y) ==
    IF IsLeap(y) THEN [dim EXCEPT ![3] = 29] ELSE dim

\* line 56: DAYS_IN_MONTH[2] = 29 if leap else 28
MondaySetFeb(dim, y) ==
    [dim EXCEPT ![3] = IF IsLeap(y) THEN 29 ELSE 28]

RECURSIVE MondayLoop(_, _, _)
\* lines 57-61; DAYS_IN_MONTH[13] does not exist: IndexError
MondayLoop(dim, month_idx, d) ==
    IF month_idx + 1 > Len(dim) THEN [error |-> "IndexError"]
    ELSE IF d > dim[month_idx + 1]
         THEN MondayLoop(dim, month_idx + 1, d - dim[month_idx + 1])
         ELSE [error |-> None, month |-> month_idx, day |-> d]

\* the result of monday(y, d) called when the global list is dim
Monday(dim, y, d) == MondayLoop(MondaySetFeb(dim, y), 1, d)

-----------------------------------------------------------------------------
(* format_data_line and the whitespace split that follows it               *)

Digit == {"0", "1", "2", "3", "4", "5", "6", "7", "8", "9"}
Space == {" ", "\t"}

IsDigitAt(s, p) == p >= 1 /\ p <= Len(s) /\ s[p] \in Digit

RECURSIVE DigitsEnd(_, _)
\* the position after the maximal run of digits of s starting at p
DigitsEnd(s, p) == IF IsDigitAt(s, p) THEN DigitsEnd(s, p + 1) ELSE p

\* \d+\.\d+ matched greedily at p: the position after it, 0 if no match
DecimalEnd(s, p) ==
    LET e1 == DigitsEnd(s, p)
    IN  IF e1 > p /\ e1 <= Len(s) /\ s[e1] = "." /\ IsDigitAt(s, e1 + 1)
        THEN DigitsEnd(s, e1 + 1)
        ELSE 0

\* -?\d+\.\d+ matched at p: the position after it, 0 if no match
SignedEnd(s, p) ==
    IF p <= Len(s) /\ s[p] = "-" THEN DecimalEnd(s, p + 1) ELSE DecimalEnd(s, p)

\* (\d+\.\d+)(-?\d+\.\d+) at p, as the backtracking matcher finds it: the
\* integer part of group 1 is the whole digit run before the dot; its
\* fraction is the longest prefix of the digit run after the dot that is
\* followed by a match of group 2.  [cut, end], cut the start of group 2;
\* end = 0 if there is no match at p.
PairMatch(s, p) ==
    LET e1 == DigitsEnd(s, p)
        fe == IF e1 > p /\ e1 <= Len(s) /\ s[e1] = "." THEN DigitsEnd(s, e1 + 1) ELSE 0
        cuts == IF fe = 0 THEN {} ELSE {c \in (e1 + 2)..fe : SignedEnd(s, c) # 0}
    IN  IF cuts = {} THEN [cut |-> 0, end |-> 0]
        ELSE LET c == CHOOSE c \in cuts : \A c2 \in cuts : c2 <= c
             IN  [cut |-> c, end |-> SignedEnd(s, c)]

\* (\-?\d+\.\d+)(\-?\d+\.\d+) at p
SignedPairMatch(s, p) ==
    IF p <= Len(s) /\ s[p] = "-" THEN PairMatch(s, p + 1) ELSE PairMatch(s, p)

RECURSIVE SubFirst(_, _)
\* re.sub(r'(\d+\.\d+)(-?\d+\.\d+)', r'\1 \2', s) on the text from p on:
\* leftmost matches, none overlapping
SubFirst(s, p) ==
    IF p > Len(s) THEN <<>>
    ELSE LET m == PairMatch(s, p)
         IN  IF m.end # 0
             THEN SubSeq(s, p, m.cut - 1) \o <<" ">> \o SubSeq(s, m.cut, m.end - 1)
                    \o SubFirst(s, m.end)
             ELSE <<s[p]>> \o SubFirst(s, p + 1)

RECURSIVE SubSecond(_, _)
\* re.sub(r'(\-?\d+\.\d+)(\-?\d+\.\d+)', r'\1 \2', s) on the text from p on
SubSecond(s, p) ==
    IF p > Len(s) THEN <<>>
    ELSE LET m == SignedPairMatch(s, p)
         IN  IF m.end # 0
             THEN SubSeq(s, p, m.cut - 1) \o <<" ">> \o SubSeq(s, m.cut, m.end - 1)
                    \o SubSecond(s, m.end)
             ELSE <<s[p]>> \o SubSecond(s, p + 1)

\* A tokenizer that runs only the first substitution.
format_data_lineMutOnePass(data_line) == SubFirst(data_line, 1)

format_data_line(data_line) == SubSecond(SubFirst(data_line, 1), 1)

RECURSIVE SplitFrom(_, _, _)
\* str.split(): the maximal runs of non-whitespace characters, in order
SplitFrom(s, p, cur) ==
    IF p > Len(s) THEN (IF cur = <<>> THEN <<>> ELSE <<cur>>)
    ELSE IF s[p] \in Space
         THEN (IF cur = <<>> THEN <<>> ELSE <<cur>>) \o SplitFrom(s, p + 1, <<>>)
         ELSE SplitFrom(s, p + 1, Append(cur, s[p]))

Split(s) == SplitFrom(s, 1, <<>>)

\* xs[:n]
Take(xs, n) == SubSeq(xs, 1, IF Len(xs) < n THEN Len(xs) ELSE n)

-----------------------------------------------------------------------------
(* The record conversion of read_convert_raw (lines 101-108) and of        *)
(* process_and_save_12_min_block (lines 224-234): the same arithmetic.     *)
(* All values are in hundredths: raw volts, baselines, Htmp, Ztmp.         *)

ArcMinPerRad == 3438

Sentinel == 999999

\* line 102: Htmp = Hraw * Hscale + opt.H0
HtmpOf(Hraw, o) == Hraw * o.scale_factor + o.H0

\* line 106: Ztmp = Zraw * Zscale + opt.Z0, Zscale = -opt.scale_factor
ZtmpOf(Zraw, o) == Zraw * (-o.scale_factor) + o.Z0

\* line 104: (opt.scale_factor * 3438.0) / Htmp raises ZeroDivisionError
\* when Htmp is 0.0 and the division is the branch taken
DivisionFails(Htmp, d_nt) == d_nt = 0 /\ Htmp = 0

\* lines 104-105: int((Draw * Dscale + opt.D0) * (10 if opt.d_nt else 100)).
\* In arc-minute mode the value is the integer part of
\* (Draw * scale * 3438 * 100 + D0 * Htmp) / Htmp, Htmp and D0 in hundredths;
\* it is computed only when the division does not fail.
DOut(Draw, Htmp, o) ==
    IF o.d_nt = 0
    THEN TruncDiv(Draw * o.scale_factor * ArcMinPerRad * 100 + o.D0 * Htmp, Htmp)
    ELSE TruncDiv(Draw * o.scale_factor + o.D0, 10)

\* The sentinel test with "or" for "and".
FOutMutOr(Htmp, Ztmp) ==
    IF Htmp # 0 \/ Ztmp # 0 THEN Hypot(Htmp, Ztmp) \div 10 ELSE Sentinel

\* line 108: int(math.sqrt(Htmp**2 + Ztmp**2) * 10) if Htmp and Ztmp else 999999
FOut(Htmp, Ztmp) ==
    IF Htmp # 0 /\ Ztmp # 0 THEN Hypot(Htmp, Ztmp) \div 10 ELSE Sentinel

\* the record of one raw triple, or the exception the arithmetic raises
ConvertRecord(raw, o) ==
    LET Htmp == HtmpOf(raw.H, o)
        Ztmp == ZtmpOf(raw.Z, o)
    IN  IF DivisionFails(Htmp, o.d_nt)
        THEN [error |-> "ZeroDivisionError", H |-> TruncDiv(Htmp, 10)]
        ELSE [error |-> None,
              H |-> TruncDiv(Htmp, 10),
              D |-> DOut(raw.D, Htmp, o),
              Z |-> TruncDiv(Ztmp, 10),
              F |-> FOut(Htmp, Ztmp)]

-----------------------------------------------------------------------------
(* The state of the program before a run, shared by every specification.   *)

opt_0 ==
    [start_minute |-> 0, stop_minute |-> 1439, d_nt |-> 0, scale_factor |-> 150,
     lH |-> <<>>, lD |-> <<>>, lZ |-> <<>>, lF |-> <<>>,
     H0 |-> 0, D0 |-> 0, Z0 |-> 0, year |-> 0, dayno |-> 0, nr_minutes |-> 0,
     stationname |-> None, imfv_header |-> None]

NoFile == [exists |-> FALSE]

\* header = None of extract_12_min_block
NoHeader == [kind |-> None]

ProgIdle ==
    /\ opt = opt_0
    /\ entry = None
    /\ pc = "idle"
    /\ err = None
    /\ rawfile = <<>>
    /\ blfile = <<>>
    /\ req = [start_minute |-> 0, block_size |-> 0]
    /\ pos = 0
    /\ index = 0
    /\ header = NoHeader
    /\ block_data = <<>>
    /\ current_minute = 0
    /\ i = 0
    /\ outfile = NoFile

-----------------------------------------------------------------------------
(* SpecCal: calls of monday, one after another, on the shared list.        *)

CalYears == {1900, 2000, 2023, 2024}

InitCal ==
    /\ ProgIdle
    /\ DAYS_IN_MONTH = DAYS_IN_MONTH_0
    /\ call = [fn |-> None]

CallMonday ==
    \E y \in CalYears, d \in 1..366 :
        /\ d <= (IF IsLeap(y) THEN 366 ELSE 365)
        /\ call' = [fn |-> "monday", year |-> y, dayno |-> d,
                    before |-> DAYS_IN_MONTH,
                    result |-> Monday(DAYS_IN_MONTH, y, d)]
        /\ DAYS_IN_MONTH' = MondaySetFeb(DAYS_IN_MONTH, y)
        /\ UNCHANGED progvars

NextCal == CallMonday

SpecCal == InitCal /\ [][NextCal]_vars

-----------------------------------------------------------------------------
(* SpecTok: format_data_line and split on lines of three decimal fields.   *)

TokFields ==
    { <<"1", ".", "2">>, <<"-", "1", ".", "2">>,
      <<"1", "2", ".", "0", "5">>, <<"-", "0", ".", "2", "4">> }

TokSeps == { <<" ">>, <<" ", "\t">>, <<>> }

InitTok ==
    /\ ProgIdle
    /\ DAYS_IN_MONTH = DAYS_IN_MONTH_0
    /\ \E f1 \in TokFields, f2 \in TokFields, f3 \in TokFields,
          s1 \in TokSeps, s2 \in TokSeps :
          call = [fn |-> "line", fields |-> <<f1, f2, f3>>, seps |-> <<s1, s2>>,
                  line |-> f1 \o s1 \o f2 \o s2 \o f3]

FormatLine ==
    /\ call.fn = "line"
    /\ call' = [fn |-> "format_data_line", fields |-> call.fields,
                seps |-> call.seps, line |-> call.line,
                formatted |-> format_data_line(call.line),
                tokens |-> Take(Split(format_data_line(call.line)), 3)]
    /\ UNCHANGED <<progvars, DAYS_IN_MONTH>>

NextTok == FormatLine

SpecTok == InitTok /\ [][NextTok]_vars

-----------------------------------------------------------------------------
(* SpecConv: the record conversion on single samples.                      *)

InitConv ==
    /\ ProgIdle
    /\ DAYS_IN_MONTH = DAYS_IN_MONTH_0
    /\ \E h0 \in {0, 2000000, 9999990}, d0 \in {0, 150}, z0 \in {0, -25000},
          sf \in {40, 150}, dnt \in {0, 1},
          hr \in {0, 25, -3}, dr \in {-3, 2}, zr \in {0, 10, -5} :
          call = [fn |-> "sample",
                  o |-> [H0 |-> h0, D0 |-> d0, Z0 |-> z0,
                         scale_factor |-> sf, d_nt |-> dnt],
                  raw |-> [H |-> hr, D |-> dr, Z |-> zr]]

ConvertSample ==
    /\ call.fn = "sample"
    /\ call' = [fn |-> "convert", o |-> call.o, raw |-> call.raw,
                Htmp |-> HtmpOf(call.raw.H, call.o),
                Ztmp |-> ZtmpOf(call.raw.Z, call.o),
                rec |-> ConvertRecord(call.raw, call.o)]
    /\ UNCHANGED <<progvars, DAYS_IN_MONTH>>

NextConv == ConvertSample

SpecConv == InitConv /\ [][NextConv]_vars

-----------------------------------------------------------------------------
(* Spec: one run of the program, either run_conversion (the whole-day      *)
(* conversion) or the block path of __main__, on the files it finds.       *)

FILEHDR_NORMAL == "HDZF R EDI 12440192 -14161 RRRRRRRRRRRRRRRR"
FILEHDR_DNT == "HDZF R EDI 12440192 -14161 DRRRRRRRRRRRRRRR"

\* The lines a raw file of the model is made of: two header lines, of
\* cursor 0 and 1, and two data lines.
HdrLines ==
    { [kind |-> "hdr", year |-> 2014, dayno |-> 60, index |-> 0],
      [kind |-> "hdr", year |-> 2005, dayno |-> 60, index |-> 1] }

DataLines ==
    { [kind |-> "data", H |-> 25, D |-> -3, Z |-> 10],
      [kind |-> "data", H |-> -25, D |-> 2, Z |-> -5] }

RawFiles ==
    UNION { [1..n -> HdrLines \cup DataLines] : n \in 0..MaxLines }

\* Baseline files: three lines whose text before '#' is a number (in
\* hundredths), or a file whose second line float() rejects.  With H0 = 10.00 the second data line has Htmp = 0 at
\* scale factor 40.
Num(v) == [float |-> TRUE, value |-> v]
Junk == [float |-> FALSE]

BaselineFiles ==
    { <<Num(2000000), Num(150), Num(-25000)>>,
      <<Num(1000), Num(0), Num(30000)>>,
      <<Num(2000000), Junk>> }

\* str(n) for n >= 0, as a sequence of digits
RECURSIVE Digits(_)
Digits(n) == IF n < 10 THEN <<n>> ELSE Append(Digits(n \div 10), n % 10)

RECURSIVE ZeroFill(_, _)
ZeroFill(ds, w) == IF Len(ds) >= w THEN ds ELSE ZeroFill(<<0>> \o ds, w)

\* f"{n:0w}" for n >= 0
Pad(n, w) == ZeroFill(Digits(n), w)

\* line 120: {opt.year % 100}
HeaderYear(y) == Digits(y % 100)

\* [0] * n
Zeros(n) == [k \in 1..(IF n < 0 THEN 0 ELSE n) |-> 0]

\* the exceptions __main__ lets through end the process (line 268 catches
\* ValueError only); this version catches every exception
MainCatchesMutAll(e) == TRUE

MainCatches(e) == e = "ValueError"

Init ==
    /\ opt = opt_0
    /\ DAYS_IN_MONTH = DAYS_IN_MONTH_0
    /\ entry = None
    /\ pc = "start"
    /\ err = None
    /\ rawfile \in RawFiles
    /\ blfile \in BaselineFiles
    /\ req = [start_minute |-> 0, block_size |-> 0]
    /\ pos = 0
    /\ index = 0
    /\ header = NoHeader
    /\ block_data = <<>>
    /\ current_minute = 0
    /\ i = 0
    /\ outfile = NoFile
    /\ call = [fn |-> None]

\* lines 140-149: run_conversion sets the options
RunConversion ==
    /\ pc = "start"
    /\ \E start \in 0..MaxMinute, stop \in 0..MaxMinute, d_unit \in {0, 1} :
          /\ start <= stop
          /\ opt' = [opt EXCEPT !.stationname = "HER1",
                                !.imfv_header = IF d_unit = 0 THEN FILEHDR_NORMAL
                                                              ELSE FILEHDR_DNT,
                                !.start_minute = start,
                                !.stop_minute = stop,
                                !.d_nt = d_unit,
                                !.scale_factor = 40,
                                !.nr_minutes = stop - start + 1]
    /\ entry' = "day"
    /\ pc' = "read_baselines"
    /\ UNCHANGED <<DAYS_IN_MONTH, err, rawfile, blfile, req, pos, index, header,
                   block_data, current_minute, i, outfile, call>>

\* lines 254-258, 264: the options of the block path and its request
MainBlock ==
    /\ pc = "start"
    /\ \E s \in 0..MaxMinute, b \in 0..MaxBlock :
          req' = [start_minute |-> s, block_size |-> b]
    /\ opt' = [opt EXCEPT !.stationname = "HER", !.scale_factor = 40]
    /\ entry' = "block"
    /\ pc' = "read_baselines"
    /\ UNCHANGED <<DAYS_IN_MONTH, err, rawfile, blfile, pos, index, header,
                   block_data, current_minute, i, outfile, call>>

\* lines 63-72: read_baselines; a line that is missing or is not a number
\* raises inside the try, and the handler leaves by sys.exit
ReadBaselines ==
    /\ pc = "read_baselines"
    /\ LET ok(k) == Len(blfile) >= k /\ blfile[k].float
           o1 == IF ok(1) THEN [opt EXCEPT !.H0 = blfile[1].value] ELSE opt
           o2 == IF ok(1) /\ ok(2) THEN [o1 EXCEPT !.D0 = blfile[2].value] ELSE o1
           o3 == IF ok(1) /\ ok(2) /\ ok(3) THEN [o2 EXCEPT !.Z0 = blfile[3].value] ELSE o2
       IN  /\ opt' = o3
           /\ IF ok(1) /\ ok(2) /\ ok(3)
              THEN /\ pc' = IF entry = "day" THEN "read_begin" ELSE "extract_begin"
                   /\ err' = err
              ELSE /\ pc' = "exit"
                   /\ err' = "ConfigError"
    /\ UNCHANGED <<DAYS_IN_MONTH, entry, rawfile, blfile, req, pos, index, header,
                   block_data, current_minute, i, outfile, call>>

\* lines 85-92: read_convert_raw allocates the arrays
ReadBegin ==
    /\ pc = "read_begin"
    /\ opt' = [opt EXCEPT !.lH = Zeros(opt.nr_minutes), !.lD = Zeros(opt.nr_minutes),
                          !.lZ = Zeros(opt.nr_minutes), !.lF = Zeros(opt.nr_minutes)]
    /\ index' = 0
    /\ pos' = 0
    /\ pc' = "read_loop"
    /\ UNCHANGED <<DAYS_IN_MONTH, entry, err, rawfile, blfile, req, header,
                   block_data, current_minute, i, outfile, call>>

\* lines 93-111: one line of the raw file.  A header line sets year, day
\* and cursor.  A data line is converted and stored at the cursor: lH[index]
\* is assigned first (IndexError if the cursor is outside the arrays), then
\* the declination scale is computed (ZeroDivisionError), then lD, lZ, lF.
\* Any exception is caught and the run leaves by sys.exit.
ReadLine ==
    /\ pc = "read_loop"
    /\ pos < Len(rawfile)
    /\ pos' = pos + 1
    /\ LET line == rawfile[pos + 1]
           rec == ConvertRecord(line, opt)
       IN  IF line.kind = "hdr"
           THEN /\ opt' = [opt EXCEPT !.year = line.year, !.dayno = line.dayno]
                /\ index' = line.index
                /\ UNCHANGED <<pc, err>>
           ELSE IF index >= Len(opt.lH)
           THEN /\ pc' = "exit"
                /\ err' = "RawDataError"
                /\ UNCHANGED <<opt, index>>
           ELSE IF rec.error # None
           THEN /\ opt' = [opt EXCEPT !.lH[index + 1] = rec.H]
                /\ pc' = "exit"
                /\ err' = "RawDataError"
                /\ UNCHANGED index
           ELSE /\ opt' = [opt EXCEPT !.lH[index + 1] = rec.H,
                                      !.lD[index + 1] = rec.D,
                                      !.lZ[index + 1] = rec.Z,
                                      !.lF[index + 1] = rec.F]
                /\ index' = index + 1
                /\ UNCHANGED <<pc, err>>
    /\ UNCHANGED <<DAYS_IN_MONTH, entry, rawfile, blfile, req, header,
                   block_data, current_minute, i, outfile, call>>

\* the end of the file: read_convert_raw returns and dump_data is called
ReadDone ==
    /\ pc = "read_loop"
    /\ pos = Len(rawfile)
    /\ pc' = "dump_begin"
    /\ UNCHANGED <<opt, DAYS_IN_MONTH, entry, err, rawfile, blfile, req, pos, index,
                   header, block_data, current_minute, i, outfile, call>>

\* lines 115-122: dump_data calls monday, opens the output file for writing
\* and writes the header line.  An exception of monday is caught by nobody.
DumpBegin ==
    /\ pc = "dump_begin"
    /\ LET md == Monday(DAYS_IN_MONTH, opt.year, opt.dayno)
       IN  /\ DAYS_IN_MONTH' = MondaySetFeb(DAYS_IN_MONTH, opt.year)
           /\ IF md.error # None
              THEN /\ pc' = "crash"
                   /\ err' = md.error
                   /\ UNCHANGED <<outfile, i>>
              ELSE /\ outfile' =
                        [exists |-> TRUE,
                         name |-> [station |-> opt.stationname,
                                   doy |-> Pad(opt.dayno, 3),
                                   yy |-> Pad(opt.year % 100, 2),
                                   start |-> Pad(opt.start_minute, 4)],
                         header |-> [station |-> opt.stationname,
                                     mon |-> MONTHS[md.month],
                                     dd |-> Pad(md.day, 2),
                                     yy |-> HeaderYear(opt.year),
                                     doy |-> Digits(opt.dayno),
                                     start |-> Digits(opt.start_minute),
                                     flags |-> opt.imfv_header],
                         body |-> <<>>]
                   /\ i' = opt.start_minute
                   /\ pc' = "dump_body"
                   /\ err' = err
    /\ UNCHANGED <<opt, entry, rawfile, blfile, req, pos, index, header,
                   block_data, current_minute, call>>

\* opt.lH[m], opt.lD[m], opt.lZ[m], opt.lF[m]
Quad(o, m) == <<o.lH[m + 1], o.lD[m + 1], o.lZ[m + 1], o.lF[m + 1]>>

\* the first index that is outside the arrays
ArrayEnd(o) == Len(o.lH)

\* lines 123-126: one round of the loop, one line of the body: the
\* quadruple of minute i and, if i + 1 <= stop_minute, two spaces, the
\* quadruple of minute i + 1 and a line break.  An index outside the arrays
\* raises IndexError, which nobody catches; what was written stays.
DumpStep ==
    /\ pc = "dump_body"
    /\ i <= opt.stop_minute
    /\ IF i >= ArrayEnd(opt)
       THEN /\ pc' = "crash"
            /\ err' = "IndexError"
            /\ UNCHANGED <<outfile, i>>
       ELSE IF i + 1 <= opt.stop_minute
       THEN IF i + 1 >= ArrayEnd(opt)
            THEN /\ outfile' = [outfile EXCEPT !.body =
                        Append(@, [quads |-> <<Quad(opt, i)>>, nl |-> FALSE])]
                 /\ pc' = "crash"
                 /\ err' = "IndexError"
                 /\ UNCHANGED i
            ELSE /\ outfile' = [outfile EXCEPT !.body =
                        Append(@, [quads |-> <<Quad(opt, i), Quad(opt, i + 1)>>,
                                   nl |-> TRUE])]
                 /\ i' = i + 2
                 /\ UNCHANGED <<pc, err>>
       ELSE /\ outfile' = [outfile EXCEPT !.body =
                   Append(@, [quads |-> <<Quad(opt, i)>>, nl |-> FALSE])]
            /\ i' = i + 2
            /\ UNCHANGED <<pc, err>>
    /\ UNCHANGED <<opt, DAYS_IN_MONTH, entry, rawfile, blfile, req, pos, index,
                   header, block_data, current_minute, call>>

\* the loop ends, the file is closed, the caller prints its message
DumpDone ==
    /\ pc = "dump_body"
    /\ i > opt.stop_minute
    /\ pc' = "done"
    /\ UNCHANGED <<opt, DAYS_IN_MONTH, entry, err, rawfile, blfile, req, pos, index,
                   header, block_data, current_minute, i, outfile, call>>

\* lines 165-169: the locals of extract_12_min_block
ExtractBegin ==
    /\ pc = "extract_begin"
    /\ header' = NoHeader
    /\ block_data' = <<>>
    /\ current_minute' = 0
    /\ pos' = 0
    /\ pc' = "extract_loop"
    /\ UNCHANGED <<opt, DAYS_IN_MONTH, entry, err, rawfile, blfile, req, index,
                   i, outfile, call>>

\* A scan that does not re-synchronise the minute counter on a header line.
ExtractStepMutNoResync(st, line, start_minute, block_size) ==
    IF line.kind = "hdr"
    THEN [st EXCEPT !.header = line]
    ELSE IF st.current_minute < start_minute
    THEN [st EXCEPT !.current_minute = @ + 1]
    ELSE LET st2 == IF Len(st.block_data) < block_size
                    THEN [st EXCEPT !.block_data = Append(@, line),
                                    !.current_minute = @ + 1]
                    ELSE st
         IN  [st2 EXCEPT !.stop = (Len(st2.block_data) = block_size)]

\* lines 171-191: the body of the loop for one line.  st holds header,
\* block_data, current_minute and stop, which is TRUE when the loop breaks.
ExtractStep(st, line, start_minute, block_size) ==
    IF line.kind = "hdr"
    THEN [st EXCEPT !.header = line, !.current_minute = line.index]
    ELSE IF st.current_minute < start_minute
    THEN [st EXCEPT !.current_minute = @ + 1]
    ELSE LET st2 == IF Len(st.block_data) < block_size
                    THEN [st EXCEPT !.block_data = Append(@, line),
                                    !.current_minute = @ + 1]
                    ELSE st
         IN  [st2 EXCEPT !.stop = (Len(st2.block_data) = block_size)]

\* line 170: the next line of the file
ExtractLine ==
    /\ pc = "extract_loop"
    /\ pos < Len(rawfile)
    /\ LET st == ExtractStep([header |-> header, block_data |-> block_data,
                              current_minute |-> current_minute, stop |-> FALSE],
                             rawfile[pos + 1], req.start_minute, req.block_size)
       IN  /\ header' = st.header
           /\ block_data' = st.block_data
           /\ current_minute' = st.current_minute
           /\ pc' = IF st.stop THEN "extract_end" ELSE "extract_loop"
    /\ pos' = pos + 1
    /\ UNCHANGED <<opt, DAYS_IN_MONTH, entry, err, rawfile, blfile, req, index,
                   i, outfile, call>>

\* lines 193-197 and 265-269: after the loop (a break or the end of the
\* file) a short block raises ValueError, which __main__ catches and
\* reports; otherwise (header, block_data) is returned and processed
ExtractEnd ==
    /\ \/ pc = "extract_end"
       \/ pc = "extract_loop" /\ pos = Len(rawfile)
    /\ IF Len(block_data) < req.block_size
       THEN /\ err' = "ValueError"
            /\ pc' = IF MainCatches("ValueError") THEN "recovered" ELSE "crash"
       ELSE /\ err' = err
            /\ pc' = "process_begin"
    /\ UNCHANGED <<opt, DAYS_IN_MONTH, entry, rawfile, blfile, req, pos, index,
                   header, block_data, current_minute, i, outfile, call>>

\* lines 209-219: process_and_save_12_min_block empties the arrays and
\* parses the header; header is None when the file had no header line
\* before the block, and None.split() raises AttributeError
ProcessBegin ==
    /\ pc = "process_begin"
    /\ IF header = NoHeader
       THEN /\ opt' = [opt EXCEPT !.lH = <<>>, !.lD = <<>>, !.lZ = <<>>, !.lF = <<>>]
            /\ err' = "AttributeError"
            /\ pc' = IF MainCatches("AttributeError") THEN "recovered" ELSE "crash"
       ELSE /\ opt' = [opt EXCEPT !.lH = <<>>, !.lD = <<>>, !.lZ = <<>>, !.lF = <<>>,
                                  !.year = header.year, !.dayno = header.dayno]
            /\ err' = err
            /\ pc' = "process_loop"
    /\ pos' = 0
    /\ UNCHANGED <<DAYS_IN_MONTH, entry, rawfile, blfile, req, index, header,
                   block_data, current_minute, i, outfile, call>>

\* lines 220-234: one line of the block; the record is appended after all
\* four values are computed
ProcessLine ==
    /\ pc = "process_loop"
    /\ pos < Len(block_data)
    /\ pos' = pos + 1
    /\ LET rec == ConvertRecord(block_data[pos + 1], opt)
       IN  IF rec.error # None
           THEN /\ err' = rec.error
                /\ pc' = IF MainCatches(rec.error) THEN "recovered" ELSE "crash"
                /\ UNCHANGED opt
           ELSE /\ opt' = [opt EXCEPT !.lH = Append(@, rec.H), !.lD = Append(@, rec.D),
                                      !.lZ = Append(@, rec.Z), !.lF = Append(@, rec.F)]
                /\ UNCHANGED <<pc, err>>
    /\ UNCHANGED <<DAYS_IN_MONTH, entry, rawfile, blfile, req, index, header,
                   block_data, current_minute, i, outfile, call>>

\* lines 236-241: the range of the block, from the minute of the header,
\* and the call of dump_data
ProcessEnd ==
    /\ pc = "process_loop"
    /\ pos = Len(block_data)
    /\ opt' = [opt EXCEPT !.start_minute = header.index,
                          !.stop_minute = header.index + Len(block_data) - 1]
    /\ pc' = "dump_begin"
    /\ UNCHANGED <<DAYS_IN_MONTH, entry, err, rawfile, blfile, req, pos, index,
                   header, block_data, current_minute, i, outfile, call>>

Next ==
    \/ RunConversion
    \/ MainBlock
    \/ ReadBaselines
    \/ ReadBegin
    \/ ReadLine
    \/ ReadDone
    \/ ExtractBegin
    \/ ExtractLine
    \/ ExtractEnd
    \/ ProcessBegin
    \/ ProcessLine
    \/ ProcessEnd
    \/ DumpBegin
    \/ DumpStep
    \/ DumpDone

Spec == Init /\ [][Next]_vars

\* the run has ended: completed, left by sys.exit, ended by an exception
\* nobody caught, or ended after __main__ reported a caught exception
Terminated == pc \in {"done", "exit", "crash", "recovered"}

-----------------------------------------------------------------------------
(* Calendar facts the claims are stated against, written independently of  *)
(* the program's month table.                                              *)

MonthLength(y, m) ==
    IF m = 2 THEN (IF (y % 4 = 0 /\ y % 100 # 0) \/ y % 400 = 0 THEN 29 ELSE 28)
    ELSE IF m \in {4, 6, 9, 11} THEN 30 ELSE 31

RECURSIVE DaysBefore(_, _)
DaysBefore(y, m) == IF m <= 1 THEN 0 ELSE DaysBefore(y, m - 1) + MonthLength(y, m - 1)

\* C9: monday(year, dayno), for a day-of-year of that year and after any
\* earlier calls, returns a month in 1..12 and a day within that month of
\* that year such that the days of the months before it plus the day is
\* dayno; (2000, 60) is (2, 29), (1900, 60) is (3, 1), (2024, 1) is (1, 1).
C9_MondayIsPure ==
    call.fn = "monday" =>
        /\ call.result.error = None
        /\ call.result.month \in 1..12
        /\ call.result.day \in 1..MonthLength(call.year, call.result.month)
        /\ DaysBefore(call.year, call.result.month) + call.result.day = call.dayno
        /\ (call.year = 2000 /\ call.dayno = 60
              => call.result.month = 2 /\ call.result.day = 29)
        /\ (call.year = 1900 /\ call.dayno = 60
              => call.result.month = 3 /\ call.result.day = 1)
        /\ (call.year = 2024 /\ call.dayno = 1
              => call.result.month = 1 /\ call.result.day = 1)

\* a call for a common year made right after a call for a leap year
C9_Witness ==
    /\ call.fn = "monday"
    /\ call.before[3] = 29
    /\ call.year = 1900 /\ call.dayno = 60
    /\ call.result.error = None
    /\ call.result.month = 3 /\ call.result.day = 1

\* the lines the claim C6 speaks of: two fields are written without a
\* separator only when the second is negative
TokInDomain ==
    \A k \in 1..2 : call.seps[k] = <<>> => call.fields[k + 1][1] = "-"

\* C6: format_data_line followed by split gives back exactly the three
\* fields of a line whose adjacent fields are separated by whitespace or
\* joined before a minus sign, and returns a whitespace-separated line
\* unchanged.
C6_TokenizerSplitsFields ==
    (call.fn = "format_data_line" /\ TokInDomain) =>
        /\ call.tokens = call.fields
        /\ (call.seps[1] # <<>> /\ call.seps[2] # <<>> => call.formatted = call.line)

\* all three fields joined: "1.2-1.2-0.24"
C6_Witness ==
    /\ call.fn = "format_data_line"
    /\ call.seps = << <<>>, <<>> >>
    /\ call.fields[1] = <<"1", ".", "2">>
    /\ call.tokens = call.fields
    /\ call.formatted # call.line

\* f is x truncated to an integer, x = sqrt(h^2 + z^2) / 10 (h, z in
\* hundredths, f in tenths), stated without the program's square root:
\* (10 f)^2 <= h^2 + z^2 < (10 f + 10)^2 with the larger square moved across
IsTotalField(f, h, z) ==
    LET a == IF Abs(h) >= Abs(z) THEN Abs(h) ELSE Abs(z)
        b == IF Abs(h) >= Abs(z) THEN Abs(z) ELSE Abs(h)
    IN  /\ f >= 0
        /\ 10 * f + 10 > a
        /\ (10 * f - a) * (10 * f + a) <= b * b
        /\ (10 * f + 10 - a) * (10 * f + 10 + a) > b * b

\* C5 as stated: F_out is the sentinel exactly when Htmp or Ztmp is zero,
\* and the truncated total field otherwise.
C5_SentinelIffZero ==
    (call.fn = "convert" /\ call.rec.error = None) =>
        /\ (call.rec.F = Sentinel <=> (call.Htmp = 0 \/ call.Ztmp = 0))
        /\ (call.Htmp # 0 /\ call.Ztmp # 0
              => IsTotalField(call.rec.F, call.Htmp, call.Ztmp))

\* C5 amended: F_out is the sentinel when Htmp or Ztmp is zero, and the
\* truncated total field otherwise, which is itself 999999 when the total
\* field is at least 99999.9 and below 100000.
C5_SentinelWhenZero ==
    (call.fn = "convert" /\ call.rec.error = None) =>
        /\ (call.Htmp = 0 \/ call.Ztmp = 0 => call.rec.F = Sentinel)
        /\ (call.Htmp # 0 /\ call.Ztmp # 0
              => IsTotalField(call.rec.F, call.Htmp, call.Ztmp))

\* a record with a zero Htmp and a nonzero Ztmp (nT mode), and so the sentinel
C5_Witness ==
    /\ call.fn = "convert"
    /\ call.rec.error = None
    /\ call.Htmp = 0 /\ call.Ztmp # 0
    /\ call.rec.F = Sentinel

-----------------------------------------------------------------------------
(* What the claims about a run are stated against: the minute of a line    *)
(* of the raw file, read off the file itself.                              *)

\* the position of the last header line before line k, 0 if there is none
LastHeaderBefore(f, k) ==
    LET hs == {j \in 1..(k - 1) : f[j].kind = "hdr"}
    IN  IF hs = {} THEN 0 ELSE CHOOSE j \in hs : \A j2 \in hs : j2 <= j

\* the minute of the data line at position k: the offset of the most recent
\* header before it (0 without one) plus the number of data lines since
MinuteOf(f, k) ==
    LET j == LastHeaderBefore(f, k)
    IN  (IF j = 0 THEN 0 ELSE f[j].index) + (k - j - 1)

DataPositions(f) == {k \in 1..Len(f) : f[k].kind = "data"}

RECURSIVE LinesFrom(_, _, _)
\* the lines of f at the positions of P that are >= k, in file order
LinesFrom(f, P, k) ==
    IF k > Len(f) THEN <<>>
    ELSE (IF k \in P THEN <<f[k]>> ELSE <<>>) \o LinesFrom(f, P, k + 1)

RECURSIVE Flatten(_)
\* the quadruples of a body, line after line
Flatten(body) == IF body = <<>> THEN <<>> ELSE Head(body).quads \o Flatten(Tail(body))

\* the quadruple a data line converts to under the options o
QuadOf(line, o) ==
    LET r == ConvertRecord(line, o) IN <<r.H, r.D, r.Z, r.F>>

\* no data line of f has a zero Htmp in arc-minute mode
NoZeroIntensity(f, o) ==
    \A k \in DataPositions(f) : ~(o.d_nt = 0 /\ HtmpOf(f[k].H, o) = 0)

\* the data lines of the file whose minute is at least s, by position
Qualifying(f, s) == {k \in DataPositions(f) : MinuteOf(f, k) >= s}

Least(P) == CHOOSE k \in P : \A k2 \in P : k <= k2

\* C1: a whole-day run on a file whose data lines cover exactly the minutes
\* of the configured range completes, and the quadruple written for each
\* minute m of the range is the conversion of the data line read at cursor m.
C1_DayIndexIsMinute ==
    LET f == rawfile
        range == opt.start_minute..opt.stop_minute
        at(m) == {k \in DataPositions(f) : MinuteOf(f, k) = m}
        covered == /\ \A m \in range : at(m) # {}
                   /\ \A k \in DataPositions(f) : MinuteOf(f, k) \in range
        last(m) == CHOOSE k \in at(m) : \A k2 \in at(m) : k2 <= k
    IN  (entry = "day" /\ Terminated /\ err # "ConfigError" /\ covered
            /\ NoZeroIntensity(f, opt))
        => /\ pc = "done"
           /\ outfile.exists
           /\ Len(Flatten(outfile.body)) = opt.stop_minute - opt.start_minute + 1
           /\ \A m \in range :
                 Flatten(outfile.body)[m - opt.start_minute + 1] = QuadOf(f[last(m)], opt)

\* C2: a whole-day run that ends in a fatal error leaves no output file;
\* an output file exists at the end of a run only if the run completed.
C2_NoOutputAfterFailedRun ==
    (entry = "day" /\ pc \in {"exit", "crash"}) => ~outfile.exists

\* C3 as stated: extract_12_min_block returns the block_size successive
\* data lines that start at the first data line whose minute is at least
\* start_minute, when the file holds that many from there on, and raises
\* otherwise.
C3_BlockIsSuccessiveLines ==
    LET f == rawfile
        q == Qualifying(f, req.start_minute)
        rest == IF q = {} THEN <<>>
                ELSE LinesFrom(f, {k \in DataPositions(f) : k >= Least(q)}, 1)
        enough == Len(rest) >= req.block_size
    IN  /\ pc = "process_begin" => enough /\ block_data = Take(rest, req.block_size)
        /\ pc = "recovered" => ~enough

\* C3 amended: extract_12_min_block returns the first block_size data
\* lines, in file order, whose minute is at least start_minute (a line whose
\* minute is below start_minute is skipped wherever it stands, also after a
\* later header has set the minute back), and raises when the file has
\* fewer than block_size such lines.
C3_BlockIsFirstQualifyingLines ==
    LET f == rawfile
        qual == LinesFrom(f, Qualifying(f, req.start_minute), 1)
        enough == Len(qual) >= req.block_size
    IN  /\ pc = "process_begin" => enough /\ block_data = Take(qual, req.block_size)
        /\ pc = "recovered" => ~enough

\* a block of two different lines returned for start_minute 1 from a file
\* that opens with a skipped data line followed by a header of minute 1
C3_Witness ==
    /\ pc = "process_begin"
    /\ req = [start_minute |-> 1, block_size |-> 2]
    /\ Len(rawfile) = 4
    /\ rawfile[1].kind = "data"
    /\ rawfile[2].kind = "hdr" /\ rawfile[2].index = 1
    /\ block_data = <<rawfile[3], rawfile[4]>>
    /\ rawfile[3] # rawfile[4]

\* a step that converts a sample whose Htmp is zero in arc-minute mode
ZeroIntensityStep ==
    \/ /\ pc = "read_loop" /\ pos < Len(rawfile)
       /\ rawfile[pos + 1].kind = "data"
       /\ index < Len(opt.lH)
       /\ opt.d_nt = 0 /\ HtmpOf(rawfile[pos + 1].H, opt) = 0
    \/ /\ pc = "process_loop" /\ pos < Len(block_data)
       /\ opt.d_nt = 0 /\ HtmpOf(block_data[pos + 1].H, opt) = 0

C7_BodyLayout ==
    LET n == opt.stop_minute - opt.start_minute + 1
        quad(m) == IF m < Len(opt.lH) THEN <<Quad(opt, m)>> ELSE <<>>
        want(k) == quad(opt.start_minute + 2 * k)
                     \o (IF opt.start_minute + 2 * k + 1 <= opt.stop_minute
                         THEN quad(opt.start_minute + 2 * k + 1) ELSE <<>>)
    IN  (Terminated /\ outfile.exists) =>
          /\ Len(outfile.body) = (n + 1) \div 2
          /\ \A k \in 0..(Len(outfile.body) - 1) :
                /\ outfile.body[k + 1].quads = want(k)
                /\ Len(want(k)) = (IF opt.start_minute + 2 * k + 1 <= opt.stop_minute
                                   THEN 2 ELSE 1)
          /\ Len(Flatten(outfile.body)) = n

\* C8: the year of the header line is the two-digit year % 100, zero
\* padded, the same as the year in the name of the output file (stated for
\* the year a header line of the raw file gave).
C8_HeaderYearTwoDigits ==
    (outfile.exists /\ opt.year # 0) =>
        /\ Len(outfile.header.yy) = 2
        /\ outfile.header.yy = outfile.name.yy
        /\ outfile.header.yy[1] * 10 + outfile.header.yy[2] = opt.year % 100

\* C10: when extract_12_min_block returns a block, processing it completes
\* and writes a header whose start minute is the minute of the first line
\* of the block and a body of block_size quadruples, the j-th being the
\* conversion of the j-th line of the block (stated for a block that has a
\* header and no sample of zero intensity).
C10_BlockPathEndToEnd ==
    LET f == rawfile
        q == Qualifying(f, req.start_minute)
    IN  (entry = "block" /\ pc \in {"done", "crash"} /\ header # NoHeader
            /\ NoZeroIntensity(block_data, opt))
        => /\ pc = "done"
           /\ outfile.exists
           /\ q # {}
           /\ outfile.header.start = Digits(MinuteOf(f, Least(q)))
           /\ Flatten(outfile.body)
                = [j \in 1..req.block_size |-> QuadOf(block_data[j], opt)]

=============================================================================
